---- MODULE Spec2Model ----
(***************************************************************************)
(* A* path search over a weighted grid (astar, reconstruct_path,          *)
(* heuristic) and the replanning loop that drives the robot               *)
(* (cozmoBehavior, search_cube, add_obstacle, get_goal, rotate_point) of  *)
(* lab10/planning.py.                                                     *)
(*                                                                         *)
(* Numbers.  The heuristic is a square root and a frontier priority is    *)
(* new_cost + sqrt(d2) with new_cost and d2 integers.  A priority is kept *)
(* as the pair <<new_cost, d2>> and two priorities are compared exactly   *)
(* (PrioLT), which is the order the floating-point values have on grids   *)
(* of this size.  A coordinate that add_obstacle hands to the grid is     *)
(* (pose + offset) / scale, a float; the obstacle set keeps the numerator *)
(* pair and a cell (i, j) is blocked when <<i*scale, j*scale>> is in the  *)
(* set, i.e. when both divisions are exact and give (i, j).               *)
(***************************************************************************)
EXTENDS Integers, Sequences, FiniteSets, TLC

\* grid.width, grid.height of the loaded grid file
width == 3
height == 3

\* ---------------------------------------------------------------- bounds
\* most obstacle cells in the grid file a search starts from
MaxObstacles == 2
\* the grid file has at most one cell that costs more than 1 to enter;
\* MaxCost is what it costs
MaxCost == 2

VARIABLES
    \* ---- the grid (CozGrid)
    scale,          \* grid.scale
    start,          \* grid.getStart()
    goal,           \* grid.getGoals()[0]
    obstacles,      \* grid obstacle coordinates, each multiplied by scale
    weight,         \* cost of entering each cell (second part of an edge)
    visited,        \* grid.addVisited trace
    grid_path,      \* grid.setPath / grid.getPath
    \* ---- one astar invocation
    apc,            \* where astar is: idle, loop, reconstruct, returned, raised
    start_pose,
    goal_pose,
    frontier,       \* the PriorityQueue: a set of <<priority, cell>>
    came_from,
    cost_so_far,
    current,        \* astar's current (line 29)
    rc_current,     \* reconstruct_path's current
    rc_path,        \* reconstruct_path's path
    \* ---- cozmoBehavior
    pc,             \* where cozmoBehavior is
    path_index,
    path,
    found_goal,
    new_cube,       \* None or the cube <<cube_id, x, y, heading>>
    \* ---- the world around it
    stopevent,      \* threading.Event set by the main thread
    robot_xy,       \* where the robot is, in the units of cube poses
    cmd,            \* motion command the last step gave the robot, or "none"
    detections      \* cubes search_cube has reported so far

gridvars == <<scale, start, goal, obstacles, weight, visited, grid_path>>
astarvars == <<apc, start_pose, goal_pose, frontier, came_from, cost_so_far,
               current, rc_current, rc_path>>
loopvars == <<pc, path_index, path, found_goal, new_cube>>
worldvars == <<stopevent, robot_xy, detections>>
vars == <<gridvars, astarvars, loopvars, worldvars, cmd>>

None == <<>>

Cells == (0 .. width - 1) \X (0 .. height - 1)

\* ------------------------------------------------------------------ grid
\* a cell is an obstacle when the stored float coordinates equal it
IsObstacle(c) == <<c[1] * scale, c[2] * scale>> \in obstacles

coordInBounds(c) == c \in Cells

\* the 4-directional neighbours of coord that are in bounds and free, each
\* with the cost of the edge to it
getNeighbors(coord) ==
    { <<n, weight[n]>> :
        n \in { m \in { <<coord[1] + 1, coord[2]>>, <<coord[1] - 1, coord[2]>>,
                        <<coord[1], coord[2] + 1>>, <<coord[1], coord[2] - 1>> } :
                  coordInBounds(m) /\ ~IsObstacle(m) } }

\* ------------------------------------------------------------- heuristic
\* line 71 without math.sqrt: the squared distance, which overestimates
\* (kept, like every heuristic value, as the square of what is returned)
heuristic_NoSqrt(a, b) ==
    LET d2 == (a[1] - b[1]) * (a[1] - b[1]) + (a[2] - b[2]) * (a[2] - b[2])
    IN d2 * d2

\* heuristic returns sqrt of this value; the pair arithmetic below keeps
\* the square
heuristic(a, b) == (a[1] - b[1]) * (a[1] - b[1]) + (a[2] - b[2]) * (a[2] - b[2])

\* sqrt(m) < k + sqrt(n), for k >= 0
SqrtLT(m, k, n) ==
    LET d == m - n - k * k IN d < 0 \/ d * d < 4 * k * k * n
\* sqrt(m) <= k + sqrt(n), for k >= 0
SqrtLE(m, k, n) ==
    LET d == m - n - k * k IN d <= 0 \/ d * d <= 4 * k * k * n

\* p[1] + sqrt(p[2]) < q[1] + sqrt(q[2])
PrioLT(p, q) ==
    LET k == q[1] - p[1] IN
    IF k >= 0 THEN SqrtLT(p[2], k, q[2]) ELSE ~SqrtLE(q[2], -k, p[2])

\* tuple order on cells
CellLT(a, b) == a[1] < b[1] \/ (a[1] = b[1] /\ a[2] < b[2])

\* tuple order on (priority, cell), the order PriorityQueue pops in
EntryLT(e, f) ==
    \/ PrioLT(e[1], f[1])
    \/ (~PrioLT(f[1], e[1]) /\ CellLT(e[2], f[2]))

\* frontier.get(): the least entry
FrontierMin(q) == CHOOSE e \in q : \A f \in q \ {e} : EntryLT(e, f)

\* a step of astar: cozmoBehavior waits for it, the robot gets no command
Quiet ==
    /\ cmd' = "none"
    /\ UNCHANGED <<loopvars, worldvars>>

\* ----------------------------------------------------------------- astar
\* lines 18-26 without line 25: the start gets no came_from entry
AstarCall_NoCameFrom ==
    /\ start_pose' = start
    /\ goal_pose' = goal
    /\ frontier' = { << <<0, 0>>, start >> }
    /\ came_from' = <<>>
    /\ cost_so_far' = [c \in {start} |-> 0]
    /\ apc' = "loop"
    /\ UNCHANGED <<current, rc_current, rc_path>>

\* lines 18-26
AstarCall ==
    /\ start_pose' = start
    /\ goal_pose' = goal
    /\ frontier' = { << <<0, 0>>, start >> }
    /\ came_from' = [c \in {start} |-> None]
    /\ cost_so_far' = [c \in {start} |-> 0]
    /\ apc' = "loop"
    /\ UNCHANGED <<current, rc_current, rc_path>>

\* line 41 without its second test: a cell is never given a lower cost
Relaxed_OnlyNew(cur) ==
    { n \in getNeighbors(cur) : n[1] \notin DOMAIN cost_so_far }

\* line 41 with "and" for "or": a new cell is never taken up
Relaxed_OnlyKnown(cur) ==
    { n \in getNeighbors(cur) :
        /\ n[1] \in DOMAIN cost_so_far
        /\ cost_so_far[cur] + n[2] < cost_so_far[n[1]] }

\* line 41 with "<=" for "<": a cell is taken up again at the cost it has
Relaxed_NotDearer(cur) ==
    { n \in getNeighbors(cur) :
        \/ n[1] \notin DOMAIN cost_so_far
        \/ cost_so_far[cur] + n[2] <= cost_so_far[n[1]] }

\* line 41 left out: every neighbour is taken up, whatever its cost
Relaxed_Always(cur) == getNeighbors(cur)

\* the neighbours of cur that line 41 lets through
Relaxed(cur) ==
    { n \in getNeighbors(cur) :
        \/ n[1] \notin DOMAIN cost_so_far
        \/ cost_so_far[cur] + n[2] < cost_so_far[n[1]] }

\* lines 28-31, 37-45: pop a cell that is not the goal and relax its edges
AstarExpand ==
    /\ Quiet
    /\ apc = "loop"
    /\ frontier # {}
    /\ LET top == FrontierMin(frontier)
           cur == top[2]
           imp == Relaxed(cur)
           cells == { n[1] : n \in imp }
       IN /\ cur # goal_pose
          /\ current' = cur
          /\ visited' = visited \cup {cur}
          /\ cost_so_far' =
                [c \in DOMAIN cost_so_far \cup cells |->
                    IF c \in cells
                    THEN cost_so_far[cur] + (CHOOSE n \in imp : n[1] = c)[2]
                    ELSE cost_so_far[c]]
          /\ came_from' =
                [c \in DOMAIN came_from \cup cells |->
                    IF c \in cells THEN cur ELSE came_from[c]]
          /\ frontier' = (frontier \ {top}) \cup
                { << <<cost_so_far[cur] + n[2], heuristic(n[1], goal_pose)>>, n[1] >> :
                    n \in imp }
    /\ UNCHANGED <<apc, start_pose, goal_pose, rc_current, rc_path>>
    /\ UNCHANGED <<scale, start, goal, obstacles, weight, grid_path>>

\* lines 28-33, 51-52: pop the goal and enter reconstruct_path
AstarGoal ==
    /\ Quiet
    /\ apc = "loop"
    /\ frontier # {}
    /\ LET top == FrontierMin(frontier) IN
          /\ top[2] = goal_pose
          /\ current' = top[2]
          /\ visited' = visited \cup {top[2]}
          /\ frontier' = frontier \ {top}
    /\ apc' = "reconstruct"
    /\ rc_current' = goal_pose
    /\ rc_path' = <<>>
    /\ UNCHANGED <<start_pose, goal_pose, came_from, cost_so_far>>
    /\ UNCHANGED <<scale, start, goal, obstacles, weight, grid_path>>

\* line 47 as a plain return: the search ends without a path and without
\* an error
AstarFail_Silent ==
    /\ Quiet
    /\ apc = "loop"
    /\ frontier = {}
    /\ apc' = "returned"
    /\ UNCHANGED <<start_pose, goal_pose, frontier, came_from, cost_so_far,
                   current, rc_current, rc_path>>
    /\ UNCHANGED gridvars

\* line 47
AstarFail ==
    /\ Quiet
    /\ apc = "loop"
    /\ frontier = {}
    /\ apc' = "raised"
    /\ UNCHANGED <<start_pose, goal_pose, frontier, came_from, cost_so_far,
                   current, rc_current, rc_path>>
    /\ UNCHANGED gridvars

\* line 58 left out
Reverse_Forgotten(s) == s

\* path.reverse() of line 58
Reverse(s) == [i \in 1 .. Len(s) |-> s[Len(s) + 1 - i]]

\* lines 53-55: one turn of the loop of reconstruct_path; a cell without a
\* came_from entry (None included) is a KeyError
ReconstructStep ==
    /\ Quiet
    /\ apc = "reconstruct"
    /\ rc_current # start_pose
    /\ rc_path' = Append(rc_path, rc_current)
    /\ IF rc_current \in DOMAIN came_from
       THEN rc_current' = came_from[rc_current] /\ apc' = apc
       ELSE rc_current' = rc_current /\ apc' = "keyerror"
    /\ UNCHANGED <<start_pose, goal_pose, frontier, came_from, cost_so_far, current>>
    /\ UNCHANGED gridvars

\* lines 57-59 and 34-35: finish the path, store it, return
ReconstructDone ==
    /\ Quiet
    /\ apc = "reconstruct"
    /\ rc_current = start_pose
    /\ rc_path' = Reverse(Append(rc_path, start_pose))
    /\ grid_path' = rc_path'
    /\ apc' = "returned"
    /\ UNCHANGED <<start_pose, goal_pose, frontier, came_from, cost_so_far,
                   current, rc_current>>
    /\ UNCHANGED <<scale, start, goal, obstacles, weight, visited>>

AstarStep ==
    \/ AstarExpand
    \/ AstarGoal
    \/ AstarFail
    \/ ReconstructStep
    \/ ReconstructDone

\* ------------------------------------------- specification of one search
\* Any grid file: any start and goal, up to MaxObstacles obstacle cells, at
\* most one cell dearer than 1.
Weights ==
    { [c \in Cells |-> 1] } \cup
    { [c \in Cells |-> IF c = h THEN MaxCost ELSE 1] : h \in Cells }

ObstacleSets == { S \in SUBSET Cells : Cardinality(S) <= MaxObstacles }

InitAstar ==
    /\ apc = "idle"
    /\ start_pose = None
    /\ goal_pose = None
    /\ frontier = {}
    /\ came_from = <<>>
    /\ cost_so_far = <<>>
    /\ current = None
    /\ rc_current = None
    /\ rc_path = <<>>

InitSearch ==
    /\ scale = 1
    /\ start \in Cells
    /\ goal \in Cells
    /\ \E S \in ObstacleSets : obstacles = { <<c[1] * scale, c[2] * scale>> : c \in S }
    /\ weight \in Weights
    /\ visited = {}
    /\ grid_path = <<>>
    /\ InitAstar
    /\ pc = "off"
    /\ path_index = 0
    /\ path = <<>>
    /\ found_goal = FALSE
    /\ new_cube = None
    /\ stopevent = FALSE
    /\ robot_xy = <<start[1] * scale, start[2] * scale>>
    /\ cmd = "none"
    /\ detections = 0

\* astar(grid, heuristic) is called
SearchCall ==
    /\ apc = "idle"
    /\ pc = "off"
    /\ AstarCall
    /\ Quiet
    /\ UNCHANGED gridvars

NextSearch == SearchCall \/ AstarStep

SpecSearch == InitSearch /\ [][NextSearch]_vars

\* ------------------------------------------------------- the obstacle code
\* LightCube1Id: the cube that marks the goal
LightCube1Id == 1
CubeIds == {1, 2}
\* cube_size of add_obstacle and get_goal
cube_size == 50

cube_id(cube) == cube[1]
pose_x(cube) == cube[2]
pose_y(cube) == cube[3]
heading(cube) == cube[4]

\* math.cos and math.sin of a heading in degrees.  Only heading 0 is given a
\* value: there the floats are exactly 1.0 and 0.0, and at every other
\* heading (the quarter turns too) they carry a rounding residue that the
\* integers here cannot hold.
Cos(deg) == CASE deg = 0 -> 1
Sin(deg) == CASE deg = 0 -> 0

rotate_point(x, y, heading_deg) ==
    <<x * Cos(heading_deg) + y * (0 - Sin(heading_deg)),
      x * Sin(heading_deg) + y * Cos(heading_deg)>>

\* range(-cube_size, cube_size, step): the far edge of the cube is left out
Offsets_Exclusive(step) ==
    { -cube_size + k * step : k \in 0 .. ((2 * cube_size - 1) \div step) }

\* range(-cube_size, cube_size + 1, step)
Offsets(step) ==
    { -cube_size + k * step : k \in 0 .. ((2 * cube_size) \div step) }

\* the coordinates add_obstacle adds, each still to be divided by grid.scale
add_obstacle(cube) ==
    { LET r == rotate_point(x, y, heading(cube))
      IN <<pose_x(cube) + r[1], pose_y(cube) + r[2]>> :
        x \in Offsets(scale), y \in Offsets(scale) }

\* the coordinate get_goal adds with grid.addObstacle, still to be divided
\* by grid.scale
get_goal(cube) ==
    LET r == rotate_point(0, -cube_size, heading(cube))
    IN { <<pose_x(cube) + r[1], pose_y(cube) + r[2]>> }

\* --------------------------------------------------------- cozmoBehavior
\* most cubes search_cube reports in one run
MaxDetect == 2
\* the robot is followed up to MaxDrift cells from where it started
MaxDrift == 2

\* grid.scale of the grid file the robot runs on
LoopScale == 50

\* where a cube can be seen: heading 0, on and off the cell raster
CubePoses == { <<0, 0>>, <<0, 150>>, <<150, 0>>, <<150, 150>>, <<75, 75>> }
Cubes == { <<id, p[1], p[2], 0>> : id \in CubeIds, p \in CubePoses }

\* lines 88-90: the first plan
PlanCall ==
    /\ pc = "start"
    /\ found_goal' = FALSE
    /\ AstarCall
    /\ pc' = "plan"
    /\ cmd' = "none"
    /\ UNCHANGED <<path_index, path, new_cube>>
    /\ UNCHANGED <<gridvars, worldvars>>

\* lines 91-93 after the first plan, lines 111-112 after a replan
PlanReturn ==
    /\ pc \in {"plan", "replan"}
    /\ apc = "returned"
    /\ path_index' = 0
    /\ path' = grid_path
    /\ pc' = IF pc = "plan" THEN "while" ELSE "follow"
    /\ apc' = "idle"
    /\ cmd' = "none"
    /\ UNCHANGED <<found_goal, new_cube>>
    /\ UNCHANGED <<start_pose, goal_pose, frontier, came_from, cost_so_far,
                   current, rc_current, rc_path>>
    /\ UNCHANGED <<gridvars, worldvars>>

\* the ValueError caught and dropped: the loop goes on with the path it has
PlanRaise_Swallowed ==
    /\ pc \in {"plan", "replan"}
    /\ apc = "raised"
    /\ pc' = IF pc = "plan" THEN "while" ELSE "follow"
    /\ apc' = "idle"
    /\ cmd' = "none"
    /\ UNCHANGED <<path_index, path, found_goal, new_cube>>
    /\ UNCHANGED <<start_pose, goal_pose, frontier, came_from, cost_so_far,
                   current, rc_current, rc_path>>
    /\ UNCHANGED <<gridvars, worldvars>>

\* the ValueError of line 47 is not caught: it ends cozmoBehavior
PlanRaise ==
    /\ pc \in {"plan", "replan"}
    /\ apc = "raised"
    /\ pc' = "ValueError"
    /\ apc' = "idle"
    /\ cmd' = "none"
    /\ UNCHANGED <<path_index, path, found_goal, new_cube>>
    /\ UNCHANGED <<start_pose, goal_pose, frontier, came_from, cost_so_far,
                   current, rc_current, rc_path>>
    /\ UNCHANGED <<gridvars, worldvars>>

\* line 94 as "while True": the event is never read
WhileTest_NoStop ==
    /\ pc = "while"
    /\ pc' = "search"
    /\ cmd' = "none"
    /\ UNCHANGED <<path_index, path, found_goal, new_cube>>
    /\ UNCHANGED <<gridvars, astarvars, worldvars>>

\* line 94, and line 128 once the event is set
WhileTest ==
    /\ pc = "while"
    /\ pc' = IF stopevent THEN "stopped" ELSE "search"
    /\ cmd' = "none"
    /\ UNCHANGED <<path_index, path, found_goal, new_cube>>
    /\ UNCHANGED <<gridvars, astarvars, worldvars>>

\* lines 96-97: search_cube times out
SearchNone ==
    /\ pc = "search"
    /\ new_cube' = None
    /\ pc' = "follow"
    /\ cmd' = "none"
    /\ UNCHANGED <<path_index, path, found_goal>>
    /\ UNCHANGED <<gridvars, astarvars, worldvars>>

\* lines 96-106 without the replan of lines 109-112: the obstacles are added
\* and the loop goes on with the path it has
SearchFound_NoReplan ==
    /\ pc = "search"
    /\ detections < MaxDetect
    /\ \E cube \in Cubes :
          /\ new_cube' = cube
          /\ obstacles' = obstacles \cup add_obstacle(cube) \cup
                (IF cube_id(cube) = LightCube1Id THEN get_goal(cube) ELSE {})
          /\ found_goal' = (found_goal \/ cube_id(cube) = LightCube1Id)
    /\ detections' = detections + 1
    /\ pc' = "follow"
    /\ cmd' = "none"
    /\ UNCHANGED <<path_index, path>>
    /\ UNCHANGED <<scale, start, goal, weight, visited, grid_path>>
    /\ UNCHANGED <<stopevent, robot_xy>>
    /\ UNCHANGED astarvars

\* lines 96-110 with the obstacle list started afresh for each cube: the
\* cells of the cubes seen before are dropped
SearchFound_Forgetful ==
    /\ pc = "search"
    /\ detections < MaxDetect
    /\ \E cube \in Cubes :
          /\ new_cube' = cube
          /\ obstacles' = add_obstacle(cube) \cup
                (IF cube_id(cube) = LightCube1Id THEN get_goal(cube) ELSE {})
          /\ found_goal' = (found_goal \/ cube_id(cube) = LightCube1Id)
    /\ detections' = detections + 1
    /\ AstarCall
    /\ pc' = "replan"
    /\ cmd' = "none"
    /\ UNCHANGED <<path_index, path>>
    /\ UNCHANGED <<scale, start, goal, weight, visited, grid_path>>
    /\ UNCHANGED <<stopevent, robot_xy>>

\* lines 96-110: search_cube reports a cube; it is added as an obstacle,
\* cube 1 sets found_goal, and astar is called again
SearchFound ==
    /\ pc = "search"
    /\ detections < MaxDetect
    /\ \E cube \in Cubes :
          /\ new_cube' = cube
          /\ obstacles' = obstacles \cup add_obstacle(cube) \cup
                (IF cube_id(cube) = LightCube1Id THEN get_goal(cube) ELSE {})
          /\ found_goal' = (found_goal \/ cube_id(cube) = LightCube1Id)
    /\ detections' = detections + 1
    /\ AstarCall
    /\ pc' = "replan"
    /\ cmd' = "none"
    /\ UNCHANGED <<path_index, path>>
    /\ UNCHANGED <<scale, start, goal, weight, visited, grid_path>>
    /\ UNCHANGED <<stopevent, robot_xy>>

\* grid.getPath()[i], Python's index: an IndexError is None here
PathAt(i) == IF i + 1 \in 1 .. Len(grid_path) THEN grid_path[i + 1] ELSE None

\* lines 123-124: both axes get the difference of the first coordinates
Displacement ==
    LET current_pose == PathAt(path_index)[1]
        next_pose == PathAt(path_index + 1)[1]
    IN <<(next_pose - current_pose) * scale, (next_pose - current_pose) * scale>>

InArena(xy) ==
    /\ xy[1] - start[1] * scale \in (0 - MaxDrift * scale) .. (MaxDrift * scale)
    /\ xy[2] - start[2] * scale \in (0 - MaxDrift * scale) .. (MaxDrift * scale)

\* lines 114-126.  go_to_pose is relative to the robot, whose frame is taken
\* to be the grid's.
Follow ==
    /\ pc = "follow"
    /\ IF path_index >= Len(path)
       THEN IF ~found_goal
            THEN \* turn_in_place, then line 121 indexes past the path
                 /\ cmd' = "turn_in_place"
                 /\ pc' = "IndexError"
                 /\ robot_xy' = robot_xy
            ELSE \* Arrived: break
                 /\ cmd' = "none"
                 /\ pc' = "arrived"
                 /\ robot_xy' = robot_xy
       ELSE IF PathAt(path_index) = None \/ PathAt(path_index + 1) = None
            THEN /\ cmd' = "none"
                 /\ pc' = "IndexError"
                 /\ robot_xy' = robot_xy
            ELSE /\ cmd' = "go_to_pose"
                 /\ pc' = "while"
                 /\ robot_xy' = <<robot_xy[1] + Displacement[1],
                                  robot_xy[2] + Displacement[2]>>
                 /\ InArena(robot_xy')
    /\ UNCHANGED <<path_index, path, found_goal, new_cube>>
    /\ UNCHANGED <<stopevent, detections>>
    /\ UNCHANGED <<gridvars, astarvars>>

\* the main thread sets stopevent (line 192).  cozmoBehavior reads the event
\* only at line 94, so setting it while astar runs is the same as setting it
\* when astar has returned: the step is taken between the steps of the loop.
SetStop ==
    /\ pc \in {"start", "while", "search", "follow"}
    /\ ~stopevent
    /\ stopevent' = TRUE
    /\ cmd' = "none"
    /\ UNCHANGED <<robot_xy, detections>>
    /\ UNCHANGED <<gridvars, astarvars, loopvars>>

\* the grid file: any start and goal, every edge of cost 1, and no obstacle
\* or the goal cell marked as one
Init ==
    /\ scale = LoopScale
    /\ start \in Cells
    /\ goal \in Cells
    /\ obstacles \in { {}, { <<goal[1] * scale, goal[2] * scale>> } }
    /\ weight = [c \in Cells |-> 1]
    /\ visited = {}
    /\ grid_path = <<>>
    /\ InitAstar
    /\ pc = "start"
    /\ path_index = 0
    /\ path = <<>>
    /\ found_goal = FALSE
    /\ new_cube = None
    /\ stopevent = FALSE
    /\ robot_xy = <<start[1] * scale, start[2] * scale>>
    /\ cmd = "none"
    /\ detections = 0

Next ==
    \/ PlanCall
    \/ AstarStep
    \/ PlanReturn
    \/ PlanRaise
    \/ WhileTest
    \/ SearchNone
    \/ SearchFound
    \/ Follow
    \/ SetStop

Spec == Init /\ [][Next]_vars

\* cozmoBehavior runs on a thread of its own and every call it blocks on
\* (say_text, wait_for_observed_light_cube with its timeout, go_to_pose)
\* completes: whenever the thread can take a step it takes one.  Nothing
\* makes the main thread set stopevent.
RobotStep ==
    \/ PlanCall
    \/ AstarStep
    \/ PlanReturn
    \/ PlanRaise
    \/ WhileTest
    \/ SearchNone
    \/ SearchFound
    \/ Follow

FairSpec == Init /\ [][Next]_vars /\ WF_vars(RobotStep)

\* ------------------------------------------------- what the claims speak of
\* a cost no path reaches: a path without a repeated cell has fewer edges
\* than the grid has cells
Unreached == width * height * MaxCost + 1

MinOf(S) == CHOOSE x \in S : \A y \in S : x <= y

\* a distance table is a set of <<cell, cost>>, one pair for each cell
DistAt(D, c) == (CHOOSE p \in D : p[1] = c)[2]

\* every edge of the grid, as <<from, to, cost>>
GridEdges ==
    UNION { { <<m, n[1], n[2]>> : n \in getNeighbors(m) } : m \in Cells }

\* one round of Bellman-Ford over the edges E
RelaxAll(D, E) ==
    { <<c, MinOf({DistAt(D, c)} \cup
                 { DistAt(D, e[1]) + e[3] :
                     e \in { f \in E : f[2] = c /\ DistAt(D, f[1]) < Unreached } })>> :
        c \in Cells }

\* rounds until nothing changes
RECURSIVE BellmanFord(_, _, _)
BellmanFord(D, E, rounds) ==
    LET R == RelaxAll(D, E) IN
    IF rounds = 0 \/ R = D THEN D ELSE BellmanFord(R, E, rounds - 1)

\* the least cost of a path of grid edges from s to c, Unreached if there
\* is none
MinCostTable(s) ==
    BellmanFord({ <<c, IF c = s THEN 0 ELSE Unreached>> : c \in Cells },
                GridEdges, Cardinality(Cells))

MinCost(s, g) == DistAt(MinCostTable(s), g)

Reachable(s, g) == MinCost(s, g) < Unreached

\* p[i] -> p[i+1] is an edge the neighbour query of p[i] returns
IsEdge(a, b) == \E n \in getNeighbors(a) : n[1] = b
EdgeCost(a, b) == (CHOOSE n \in getNeighbors(a) : n[1] = b)[2]

RECURSIVE PathCost(_)
PathCost(p) ==
    IF Len(p) <= 1 THEN 0
    ELSE EdgeCost(p[1], p[2]) + PathCost(Tail(p))

IsPath(p, s, g) ==
    /\ Len(p) >= 1
    /\ p[1] = s
    /\ p[Len(p)] = g
    /\ \A i \in 1 .. Len(p) - 1 : IsEdge(p[i], p[i + 1])

\* C1: when astar has stored a path, the path's total edge cost is the least
\* cost of any path from start to goal in the grid.
C1_Optimal ==
    apc = "returned" => PathCost(grid_path) = MinCost(start, goal)

\* a search that had to go round an obstacle and chose between a dear cell
\* and a detour
C1_Witness ==
    /\ apc = "returned"
    /\ pc = "off"
    /\ obstacles # {}
    /\ \E c \in Cells : weight[c] > 1
    /\ Len(grid_path) >= 5
    /\ PathCost(grid_path) = MinCost(start, goal)
    /\ PathCost(grid_path) = Len(grid_path) - 1

\* C2: astar raises only when the goal cannot be reached through the
\* neighbour relation, and it returns or stores a path only when the goal can
\* be reached.
C2_FailsIffUnreachable ==
    /\ apc = "raised" => ~Reachable(start, goal)
    /\ (apc = "returned" \/ grid_path # <<>>) => Reachable(start, goal)
    /\ apc # "keyerror"

\* a free goal walled off from a free start: the search explored and raised
C2_Witness ==
    /\ apc = "raised"
    /\ pc = "off"
    /\ ~IsObstacle(goal)
    /\ ~IsObstacle(start)
    /\ Cardinality(visited) >= 3
    /\ grid_path = <<>>

\* C3: the stored path starts at start, ends at goal, every step of it is an
\* edge of the neighbour query, and it is the came_from chain of the goal,
\* reversed.
C3_PathIsChain ==
    apc = "returned" =>
        /\ IsPath(grid_path, start, goal)
        /\ came_from[grid_path[1]] = None
        /\ \A i \in 2 .. Len(grid_path) : came_from[grid_path[i]] = grid_path[i - 1]

\* a stored path of four cells or more that bends
C3_Witness ==
    /\ apc = "returned"
    /\ pc = "off"
    /\ Len(grid_path) >= 4
    /\ grid_path[1] = start
    /\ grid_path[Len(grid_path)] = goal
    /\ grid_path[1][1] # goal[1]
    /\ grid_path[1][2] # goal[2]

C4_NoMoveInDetectingIteration ==
    cmd = "go_to_pose" => new_cube = None

\* C4, amended: when a go_to_pose is given in an iteration whose search_cube
\* reported a cube, astar has run on the grid with that cube's obstacles and
\* the loop follows the path it stored, from index 0.
C4_MoveFollowsReplannedPath ==
    (cmd = "go_to_pose" /\ new_cube # None) =>
        /\ apc = "idle"
        /\ path = grid_path
        /\ path_index = 0
        /\ IsPath(grid_path, start, goal)

\* a cube was reported, its obstacles pushed the path off the straight way,
\* and the robot was moved in the same iteration
C4_Witness ==
    /\ cmd = "go_to_pose"
    /\ new_cube # None
    /\ \E c \in Cells : IsObstacle(c)
    /\ Len(grid_path) - 1 >
          (IF start[1] > goal[1] THEN start[1] - goal[1] ELSE goal[1] - start[1]) +
          (IF start[2] > goal[2] THEN start[2] - goal[2] ELSE goal[2] - start[2])

\* the next go_to_pose would take the robot out of the part of the floor the
\* model follows
AtDriftBound ==
    /\ pc = "follow"
    /\ PathAt(path_index) # None
    /\ PathAt(path_index + 1) # None
    /\ ~InArena(<<robot_xy[1] + Displacement[1], robot_xy[2] + Displacement[2]>>)

\* C5: if from some point on the goal marker has been found, search_cube
\* reports no cube and stopevent is not set, the loop reaches the Arrived
\* branch and leaves (runs the model stops following at the drift bound do not
\* count against it).
C5_EventuallyArrives ==
    <>[](found_goal /\ new_cube = None /\ ~stopevent)
        => <>(pc = "arrived" \/ AtDriftBound)

\* C6: while astar runs after cube 1 was reported, the goal it searches for
\* is the cell get_goal projects from the cube.
C6_GoalIsMarkerCell ==
    (pc = "replan" /\ new_cube # None /\ cube_id(new_cube) = LightCube1Id) =>
        <<goal_pose[1] * scale, goal_pose[2] * scale>> \in get_goal(new_cube)

\* C7: while astar runs for the loop, its start cell is the cell the robot
\* is on.
C7_StartIsRobotCell ==
    pc \in {"plan", "replan"} =>
        <<start_pose[1] * scale, start_pose[2] * scale>> = robot_xy

\* C8: the loop starts an iteration only after reading stopevent unset at
\* line 94, every go_to_pose is followed by that test, and once the test has
\* read the event set no motion command, no search and no further step of the
\* loop follows.
C8_StopIsFinal ==
    [][ /\ (pc' = "search" /\ pc # "search") => (pc = "while" /\ ~stopevent)
        /\ cmd' = "go_to_pose" => pc' = "while"
        /\ (pc = "while" /\ stopevent /\ pc' # pc) => pc' = "stopped"
        /\ pc = "stopped" =>
              (pc' = "stopped" /\ cmd' = "none" /\ apc' = apc /\ robot_xy' = robot_xy)
      ]_vars

\* the loop moved the robot, then read the event set and stopped
C8_Witness ==
    /\ pc = "stopped"
    /\ stopevent
    /\ robot_xy # <<start[1] * scale, start[2] * scale>>
    /\ cmd = "none"

\* C9: when astar has raised, the loop takes over no path, gives no motion
\* command and ends with the error; nothing follows the error.
C9_FailurePropagates ==
    [][ (apc = "raised" \/ pc = "ValueError") =>
            /\ pc' \in {pc, "ValueError"}
            /\ cmd' = "none"
            /\ path' = path
            /\ path_index' = path_index
            /\ robot_xy' = robot_xy
      ]_vars

\* a replan failed after the robot had been moved along the first path, and
\* the loop ended with the error
C9_Witness ==
    /\ pc = "ValueError"
    /\ detections >= 1
    /\ path # <<>>
    /\ robot_xy # <<start[1] * scale, start[2] * scale>>

\* C11: on the 3x3 grid with every edge of cost 1, start (0,0) and goal
\* (2,2), astar returns, and the path it stores has 5 cells and cost 4, both
\* with no obstacle and with the obstacles (1,1) and (0,1); with the two
\* obstacles the path is (0,0),(1,0),(2,0),(2,1),(2,2).
C11_Scenarios ==
    ( /\ start = <<0, 0>>
      /\ goal = <<2, 2>>
      /\ weight = [c \in Cells |-> 1]
      /\ { c \in Cells : IsObstacle(c) } \in { {}, { <<1, 1>>, <<0, 1>> } } ) =>
        /\ apc \notin {"raised", "keyerror"}
        /\ apc = "returned" =>
              /\ Len(grid_path) = 5
              /\ PathCost(grid_path) = 4
              /\ IsObstacle(<<1, 1>>) =>
                    grid_path = << <<0, 0>>, <<1, 0>>, <<2, 0>>, <<2, 1>>, <<2, 2>> >>

\* the search of scenario 2 has returned
C11_Witness ==
    /\ apc = "returned"
    /\ pc = "off"
    /\ start = <<0, 0>>
    /\ goal = <<2, 2>>
    /\ weight = [c \in Cells |-> 1]
    /\ { c \in Cells : IsObstacle(c) } = { <<1, 1>>, <<0, 1>> }
    /\ Len(grid_path) = 5

\* the search of scenario 1 has returned
C11_WitnessFree ==
    /\ apc = "returned"
    /\ pc = "off"
    /\ start = <<0, 0>>
    /\ goal = <<2, 2>>
    /\ weight = [c \in Cells |-> 1]
    /\ obstacles = {}
    /\ PathCost(grid_path) = 4

\* C12: no step of the loop (a detection, a replan, a move) takes a
\* coordinate out of the obstacle set, so a cell that is an obstacle stays
\* one.
C12_ObstaclesOnlyGrow ==
    [][ /\ obstacles \subseteq obstacles'
        /\ \A c \in Cells : IsObstacle(c) => IsObstacle(c)' ]_vars

\* two cubes were reported one after the other, the second added cells to
\* those of the first, and the robot was moved on the replanned path
C12_Witness ==
    /\ detections = 2
    /\ cmd = "go_to_pose"
    /\ \E cube \in Cubes :
          /\ add_obstacle(cube) \subseteq obstacles
          /\ add_obstacle(cube) # obstacles
          /\ add_obstacle(new_cube) \subseteq obstacles
          /\ ~(add_obstacle(new_cube) \subseteq add_obstacle(cube))
          /\ ~(add_obstacle(cube) \subseteq add_obstacle(new_cube))

\* ------------------------------------ specification of the obstacle code
\* add_obstacle and get_goal on an empty grid, as lines 98-103 call them: a
\* grid of scale 25 or 50 and a cube seen at heading 0 on a raster of 25 mm
ProjectScales == {25, 50}
ProjectCoords == { 25 * k : k \in 0 .. 6 }
ProjectCubes ==
    { <<id, x, y, 0>> : id \in CubeIds, x \in ProjectCoords, y \in ProjectCoords }

InitProject ==
    /\ scale \in ProjectScales
    /\ start = <<0, 0>>
    /\ goal = <<0, 0>>
    /\ obstacles = {}
    /\ weight = [c \in Cells |-> 1]
    /\ visited = {}
    /\ grid_path = <<>>
    /\ InitAstar
    /\ pc = "seen"
    /\ path_index = 0
    /\ path = <<>>
    /\ found_goal = FALSE
    /\ new_cube = None
    /\ stopevent = FALSE
    /\ robot_xy = <<0, 0>>
    /\ cmd = "none"
    /\ detections = 0

\* line 98: add_obstacle(grid, new_cube)
ProjectObstacle ==
    /\ pc = "seen"
    /\ \E cube \in ProjectCubes :
          /\ new_cube' = cube
          /\ obstacles' = obstacles \cup add_obstacle(cube)
    /\ pc' = "added"
    /\ detections' = detections + 1
    /\ UNCHANGED <<scale, start, goal, weight, visited, grid_path>>
    /\ UNCHANGED <<astarvars, path_index, path, found_goal>>
    /\ UNCHANGED <<stopevent, robot_xy, cmd>>

\* lines 99-106: get_goal for cube 1, nothing for another cube
ProjectGoal ==
    /\ pc = "added"
    /\ obstacles' = obstacles \cup
          (IF cube_id(new_cube) = LightCube1Id THEN get_goal(new_cube) ELSE {})
    /\ found_goal' = (found_goal \/ cube_id(new_cube) = LightCube1Id)
    /\ pc' = "projected"
    /\ UNCHANGED <<scale, start, goal, weight, visited, grid_path>>
    /\ UNCHANGED <<astarvars, path_index, path, new_cube>>
    /\ UNCHANGED <<worldvars, cmd>>

NextProject == ProjectObstacle \/ ProjectGoal

SpecProject == InitProject /\ [][NextProject]_vars

\* the cells of the block lo..hi x lo..hi as the grid stores them
Block(lo, hi) == { <<i * scale, j * scale>> : i \in lo .. hi, j \in lo .. hi }

\* C13: on a grid of scale 25, add_obstacle for a cube at (100,100) with
\* heading 0 (cube_size is 50) marks the 25 cells {2..6} x {2..6} and no
\* other coordinate.
C13_FiveByFiveBlock ==
    ( /\ pc = "added"
      /\ scale = 25
      /\ pose_x(new_cube) = 100
      /\ pose_y(new_cube) = 100
      /\ heading(new_cube) = 0 ) =>
        /\ obstacles = Block(2, 6)
        /\ Cardinality(obstacles) = 25

\* add_obstacle has run for the cube of the scenario
C13_Witness ==
    /\ pc = "added"
    /\ scale = 25
    /\ new_cube # None
    /\ pose_x(new_cube) = 100
    /\ pose_y(new_cube) = 100
    /\ heading(new_cube) = 0
    /\ <<4 * scale, 4 * scale>> \in obstacles

\* C14: the step of the loop that gives a go_to_pose leaves path_index one
\* higher than it found it, and path_index goes back to 0 only when a replan
\* returns.
C14_IndexAdvances ==
    [][ /\ cmd' = "go_to_pose" => path_index' = path_index + 1
        /\ (path_index' = 0 /\ path_index # 0) => (pc = "replan" /\ pc' = "follow")
      ]_vars

\* C15: the go_to_pose given for the step from waypoint (r0,c0) to waypoint
\* (r1,c1) moves the robot by ((r1-r0)*scale, (c1-c0)*scale): each axis gets
\* the difference of its own coordinate.
C15_IndependentAxes ==
    [][ cmd' = "go_to_pose" =>
            LET w0 == PathAt(path_index)
                w1 == PathAt(path_index + 1)
            IN robot_xy' = <<robot_xy[1] + (w1[1] - w0[1]) * scale,
                             robot_xy[2] + (w1[2] - w0[2]) * scale>>
      ]_vars

\* C16: from the call of astar on, cost_so_far[start] is 0; a step of the
\* search never raises the cost of a cell and never drops a cell, and every
\* entry it pushes onto the frontier is for a cell that had no cost before
\* the step or has a strictly lower cost after it, pushed with that cost.
C16_CostOnlyLowers ==
    [][ apc # "idle" =>
          /\ cost_so_far[start_pose] = 0
          /\ start_pose' \in DOMAIN cost_so_far'
          /\ cost_so_far'[start_pose'] = 0
          /\ \A c \in DOMAIN cost_so_far :
                /\ c \in DOMAIN cost_so_far'
                /\ cost_so_far'[c] <= cost_so_far[c]
          /\ \A e \in frontier' \ frontier :
                /\ e[2] \in DOMAIN cost_so_far'
                /\ e[1][1] = cost_so_far'[e[2]]
                /\ \/ e[2] \notin DOMAIN cost_so_far
                   \/ cost_so_far'[e[2]] < cost_so_far[e[2]]
          /\ \A c \in DOMAIN cost_so_far' :
                (c \notin DOMAIN cost_so_far \/ cost_so_far'[c] # cost_so_far[c]) =>
                    \E e \in frontier' \ frontier : e[2] = c
      ]_vars

\* a cell was given a lower cost while its entry for the higher cost was
\* still in the frontier
C16_Witness ==
    /\ apc = "loop"
    /\ pc = "off"
    /\ cost_so_far[start_pose] = 0
    /\ \E e \in frontier, f \in frontier :
          /\ e[2] = f[2]
          /\ e[1][1] = cost_so_far[e[2]]
          /\ f[1][1] > cost_so_far[f[2]]

\* the number of came_from links reconstruct_path follows from c to the
\* start, or -1 when it has not reached the start after fuel links or meets
\* a cell without a predecessor
RECURSIVE StepsToStart(_, _)
StepsToStart(c, fuel) ==
    IF c = start_pose THEN 0
    ELSE IF fuel = 0 \/ c \notin DOMAIN came_from THEN -1
    ELSE IF came_from[c] = None THEN -1
    ELSE LET r == StepsToStart(came_from[c], fuel - 1)
         IN IF r < 0 THEN r ELSE r + 1

\* C17: in every state of a search the came_from chain of every recorded
\* cell reaches the start in fewer links than there are recorded cells (so
\* it repeats no cell), reconstruct_path never meets a cell without a
\* predecessor, and the path it builds has no more cells than were recorded.
C17_ChainReachesStart ==
    apc # "idle" =>
        LET explored == Cardinality(DOMAIN came_from) IN
        /\ \A c \in DOMAIN came_from :
              StepsToStart(c, explored) \in 0 .. explored - 1
        /\ apc # "keyerror"
        /\ apc = "reconstruct" =>
              /\ StepsToStart(rc_current, explored) >= 0
              /\ Len(rc_path) + StepsToStart(rc_current, explored) < explored
        /\ apc = "returned" => Len(grid_path) <= explored

\* reconstruct_path is under way on a chain of four links or more, after a
\* search that gave some cell a lower cost and a new predecessor (the entry
\* pushed for the higher cost is still in the frontier)
C17_Witness ==
    /\ apc = "reconstruct"
    /\ pc = "off"
    /\ Len(rc_path) >= 2
    /\ StepsToStart(goal_pose, Cardinality(DOMAIN came_from)) >= 4
    /\ \E f \in frontier : f[1][1] > cost_so_far[f[2]]

\* C18: when the loop comes to the lines that give the go_to_pose (it has
\* not left through the Arrived branch), path_index + 1 is an index of the
\* path, also for a path of one cell and after the turn_in_place at the
\* path's end; indexing the path never fails.
C18_NextWaypointExists ==
    /\ (pc = "follow" /\ ~(path_index >= Len(path) /\ found_goal)) =>
          path_index + 1 < Len(path)
    /\ pc # "IndexError"

\* C19: a step that adds an obstacle starts a search in the same step, the
\* loop gives no go_to_pose while that search runs, and when it gives one
\* the path it follows is the path the last search stored: a path from start
\* to goal that passes no cell that is an obstacle now.
C19_PathNewerThanObstacles ==
    [][ /\ obstacles' # obstacles =>
              (pc' = "replan" /\ apc' = "loop" /\ cmd' = "none")
        /\ pc' = "replan" => (cmd' = "none" /\ path' = path)
        /\ cmd' = "go_to_pose" =>
              /\ pc = "follow"
              /\ apc = "idle"
              /\ obstacles' = obstacles
              /\ path = grid_path
              /\ IsPath(grid_path, start, goal)
              /\ \A i \in 2 .. Len(grid_path) : ~IsObstacle(grid_path[i])
      ]_vars

\* both cubes were reported, each report was followed by a search, and the
\* robot was moved on the path of the second search
C19_Witness ==
    /\ cmd = "go_to_pose"
    /\ detections = MaxDetect
    /\ new_cube # None
    /\ obstacles # {}
    /\ path = grid_path
    /\ Len(path) >= 3

\* C20: in every state of a search every cell with an entry in the frontier
\* has an entry in cost_so_far and in came_from, the entries left over from
\* a higher cost of the cell included, and no frontier entry promises a
\* lower cost than the cell has.
C20_FrontierCellsRecorded ==
    apc # "idle" =>
        \A e \in frontier :
            /\ e[2] \in DOMAIN cost_so_far
            /\ e[2] \in DOMAIN came_from
            /\ cost_so_far[e[2]] <= e[1][1]

\* the frontier holds two entries of one cell, the older one for a cost the
\* cell no longer has
C20_Witness ==
    /\ apc = "loop"
    /\ pc = "off"
    /\ \E e \in frontier, f \in frontier :
          /\ e[2] = f[2]
          /\ e # f
          /\ cost_so_far[f[2]] < f[1][1]
          /\ f[2] \in DOMAIN came_from

====
